---- MODULE Spec2Model ----
(***************************************************************************)
(* A model of nearby_planes.py: one call of list_nearby, from the bounding  *)
(* box and the single HTTP request to the filtered, sorted and truncated    *)
(* list of aircraft.                                                        *)
(*                                                                          *)
(* Number representation (Python floats are not TLA+ values):               *)
(*   - coordinates are whole degrees;                                       *)
(*   - distances and radius_km are integers counting 0.001 km;              *)
(*   - altitudes and min_alt_m are integers counting 0.1 m, so that the     *)
(*     truncation of int(alt_m) is visible; the reported alt_m of a result  *)
(*     entry is in whole metres;                                            *)
(*   - angles are integers counting 0.01 degree;                            *)
(*   - bounding-box parameters count 0.00001 degree (the "%.5f" format).    *)
(* A JSON value that may be null is a set of at most one element: {} is     *)
(* None and {v} is the value v.  A dictionary key is a sequence of at most  *)
(* one value: << >> is a missing key.                                       *)
(***************************************************************************)
EXTENDS Integers, Sequences, FiniteSets, TLC

VARIABLES pc, args, request, requests, data, clock, t, states, i, rows,
          result, err

vars == <<pc, args, request, requests, data, clock, t, states, i, rows,
          result, err>>

(* ---------------------------------------------------------------- bounds *)

\* the longest states collection the data source returns
MaxRows == 2

\* the largest max_results a caller passes (the smallest is -1)
MaxResults == 2

(* ------------------------------------------------------- Python's values *)

None == {}

Some(v) == {v}

Val(o) == CHOOSE v \in o : TRUE

\* s[k] of a Python list s exists
HasIdx(s, k) == k < Len(s)

\* s[k], Python's 0-based index, of a list that has it
Idx(s, k) == s[k + 1]

\* data.get(key, default): the default only when the key is missing
DictGet(d, key, default) == IF d[key] = << >> THEN default ELSE d[key][1]

\* a slip: x or [] left out, as in data.get("states", [])
OrEmptyKeepsNone(x) == x

\* x or []: None and the empty list are both falsy
OrEmpty(x) == IF x = None \/ x = Some(<< >>) THEN Some(<< >>) ELSE x

\* bool(x) of a JSON boolean
PyBool(x) == x = TRUE

\* int(x) of a float counting 0.1: truncation toward zero, to whole units
PyInt(x) == IF x >= 0 THEN x \div 10 ELSE -((-x) \div 10)

\* float(x) % 360 of an angle counting 0.01 degree: the sign of the divisor
Mod360(x) == x % 36000

IsSpace(c) == c = " "

RECURSIVE LStrip(_)
LStrip(str) ==
    IF str # << >> /\ IsSpace(Head(str)) THEN LStrip(Tail(str)) ELSE str

RECURSIVE RStrip(_)
RStrip(str) ==
    IF str # << >> /\ IsSpace(str[Len(str)])
    THEN RStrip(SubSeq(str, 1, Len(str) - 1))
    ELSE str

\* str.strip() of a string held as a sequence of characters
Strip(str) == RStrip(LStrip(str))

\* a slip: seq[:k + 1]
SliceToOneMore(seq, k) ==
    SubSeq(seq, 1, IF k + 1 < Len(seq) THEN k + 1 ELSE Len(seq))

\* seq[:k]: the first k elements, and for a negative k all but the last -k
SliceTo(seq, k) ==
    IF k >= 0
    THEN SubSeq(seq, 1, IF k < Len(seq) THEN k ELSE Len(seq))
    ELSE SubSeq(seq, 1, IF Len(seq) + k > 0 THEN Len(seq) + k ELSE 0)

(* ------------------------------------------------------------- geo math *)

Abs(x) == IF x < 0 THEN -x ELSE x

\* 2 * EARTH_RADIUS_KM * asin(sqrt(a)), in 0.001 km, tabulated from the
\* source's formula for a center on the equator and whole-degree offsets
\* of at most one degree (one degree of arc is 111.19492664455873 km, the
\* diagonal 157.24938127194397 km; the two one-degree legs are equal floats)
haversine_km(lat1, lon1, lat2, lon2) ==
    CASE Abs(lat2 - lat1) = 0 /\ Abs(lon2 - lon1) = 0 -> 0
      [] Abs(lat2 - lat1) = 0 /\ Abs(lon2 - lon1) = 1 -> 111195
      [] Abs(lat2 - lat1) = 1 /\ Abs(lon2 - lon1) = 0 -> 111195
      [] Abs(lat2 - lat1) = 1 /\ Abs(lon2 - lon1) = 1 -> 157249

\* (degrees(atan2(y, x)) + 360) % 360, in 0.01 degree, tabulated from the
\* source's formula for the same points (atan2(0, 0) is 0)
bearing_deg(lat1, lon1, lat2, lon2) ==
    CASE lat2 - lat1 = 0  /\ lon2 - lon1 = 0  -> 0
      [] lat2 - lat1 = 1  /\ lon2 - lon1 = 0  -> 0
      [] lat2 - lat1 = 1  /\ lon2 - lon1 = 1  -> 4500
      [] lat2 - lat1 = 0  /\ lon2 - lon1 = 1  -> 9000
      [] lat2 - lat1 = -1 /\ lon2 - lon1 = 1  -> 13500
      [] lat2 - lat1 = -1 /\ lon2 - lon1 = 0  -> 18000
      [] lat2 - lat1 = -1 /\ lon2 - lon1 = -1 -> 22500
      [] lat2 - lat1 = 0  /\ lon2 - lon1 = -1 -> 27000
      [] lat2 - lat1 = 1  /\ lon2 - lon1 = -1 -> 31500

\* math.cos(math.radians(lat)) in 0.0001, for the latitudes of the centers
CosRadians(lat) == CASE lat = 0 -> 10000

\* a / b rounded to the nearest integer, for a >= 0 and b > 0
RoundDiv(a, b) == (2 * a + b) \div (2 * b)

\* (lat - dlat, lat + dlat, lon - dlon, lon + dlon), in 0.00001 degree, with
\* dlat = radius_km / 111.0 and
\* dlon = radius_km / (111.0 * max(0.0001, cos(radians(lat))))
bbox_from_center(lat, lon, radius_km) ==
    LET c    == IF CosRadians(lat) > 1 THEN CosRadians(lat) ELSE 1
        dlat == RoundDiv(radius_km * 100, 111)
        \* radius_km * 100 * 10000 / (111 * c) by long division, two
        \* decimal digits at a time, to stay within 32-bit integers
        d    == 111 * c
        r0   == (radius_km * 100) % d
        r1   == (r0 * 100) % d
        dlon == ((radius_km * 100) \div d) * 10000
                  + ((r0 * 100) \div d) * 100 + RoundDiv(r1 * 100, d)
    IN  <<lat * 100000 - dlat, lat * 100000 + dlat,
          lon * 100000 - dlon, lon * 100000 + dlon>>

dirs == <<"N", "NE", "E", "SE", "S", "SW", "W", "NW", "N">>

\* dirs[int((deg + 22.5) // 45)]
pretty_cardinal(deg) == Idx(dirs, (deg + 2250) \div 4500)

(* ------------------------------------------------------ the data source *)

\* an OpenSky state row of length len: 0 icao24, 1 callsign, 2 country,
\* 3 time_position, 4 last_contact, 5 lon, 6 lat, 7 baro_altitude,
\* 8 on_ground, 9 velocity, 10 true_track, 11 vertical_rate, 12 sensors,
\* 13 geo_altitude
MkRow(len, icao24, callsign, lon, lat, baro, ground, track, geo) ==
    SubSeq(<<Some(icao24), callsign, Some("US"), Some(1699999990),
             Some(1699999995), lon, lat, baro, ground, Some(2500), track,
             Some(-3), None, geo>>, 1, len)

\* the rows a response is made of: every way a row is kept, skipped or
\* too short occurs among them
RowPool ==
    { \* overhead, barometric altitude only, track above 360
      MkRow(14, "a1", Some(<<"A", "B", " ">>), Some(0), Some(0),
            Some(30000), Some(FALSE), Some(37000), None),
      \* at one degree east, geometric altitude 200.0 m, no flag, no callsign
      MkRow(14, "b2", None, Some(1), Some(0),
            None, None, None, Some(2000)),
      \* at one degree north, barometric altitude 200.7 m, blank callsign
      MkRow(14, "c3", Some(<<" ", " ">>), Some(0), Some(1),
            Some(2007), Some(FALSE), Some(-1000), None),
      \* geometric altitude 0 beside a high barometric altitude
      MkRow(14, "d4", Some(<<"D">>), Some(1), Some(0),
            Some(30000), Some(FALSE), None, Some(0)),
      \* on the ground
      MkRow(14, "e5", Some(<<"E">>), Some(0), Some(0),
            Some(30000), Some(TRUE), None, Some(30000)),
      \* beyond both radii
      MkRow(14, "f6", Some(<<"F">>), Some(1), Some(1),
            Some(30000), Some(FALSE), None, None),
      \* neither altitude
      MkRow(14, "g7", Some(<<"G">>), Some(0), Some(0),
            None, Some(FALSE), None, None),
      \* no longitude
      MkRow(14, "h8", Some(<<"H">>), None, Some(0),
            Some(30000), Some(FALSE), None, Some(30000)),
      \* thirteen fields: no geometric altitude field at all
      MkRow(13, "i9", Some(<<"I">>), Some(1), Some(0),
            Some(30000), Some(FALSE), None, None),
      \* eight fields, barometric altitude null
      MkRow(8, "j10", Some(<<"J">>), Some(0), Some(0),
            None, None, None, None),
      \* ten fields, airborne and in range
      MkRow(10, "k11", Some(<<"K">>), Some(0), Some(0),
            Some(30000), Some(FALSE), None, None),
      \* ten fields, on the ground
      MkRow(10, "l12", Some(<<"L">>), Some(0), Some(0),
            Some(30000), Some(TRUE), None, None) }

RECURSIVE SeqsUpTo(_, _)
SeqsUpTo(S, n) ==
    IF n = 0 THEN { << >> }
    ELSE LET shorter == SeqsUpTo(S, n - 1)
         IN  shorter \cup { Append(q, x) : q \in shorter, x \in S }

\* the "states" key of a response: missing, null, or a list of rows
StatesKeys ==
    { << >>, <<None>> } \cup { <<Some(q)>> : q \in SeqsUpTo(RowPool, MaxRows) }

\* the "time" key of a response: missing, null, or the snapshot's time
TimeKeys == { << >>, <<None>>, <<Some(1700000000)>> }

\* the JSON bodies of a successful response
Responses == [time : TimeKeys, states : StatesKeys]

\* what requests.get and raise_for_status raise
TransportFailures == {"Timeout", "ConnectionError", "HTTPError"}

\* the arguments of a call: the center is on the equator; radius_km is the
\* default 50 km or exactly the distance of one degree of arc; min_alt_m is
\* the default 200 m or 200.5 m
Calls ==
    [lat0 : {0}, lon0 : {0}, radius_km : {50000, 111195},
     min_alt_m : {2000, 2005}, max_results : -1 .. MaxResults]

(* ---------------------------------------------------- one row of the loop *)

\* on_ground = bool(s[8]) if s[8] is not None else False
OnGround(s) == IF Idx(s, 8) # None THEN PyBool(Val(Idx(s, 8))) ELSE FALSE

\* geo_alt_m = s[13] if len(s) > 13 else None
GeoAlt(s) == IF Len(s) > 13 THEN Idx(s, 13) ELSE None

\* alt_m = geo_alt_m if geo_alt_m is not None else baro_alt_m
ResolveAlt(s) == IF GeoAlt(s) # None THEN GeoAlt(s) ELSE Idx(s, 7)

\* a slip: if dist_km >= radius_km: continue
TooFarOrAt(dist_km, radius_km) == dist_km >= radius_km

\* if dist_km > radius_km: continue
TooFar(dist_km, radius_km) == dist_km > radius_km

\* if on_ground or alt_m < min_alt_m: continue
GroundedOrLow(on_ground, alt_m, min_alt_m) == on_ground \/ alt_m < min_alt_m

\* callsign if callsign else "(no callsign)", of (s[1] or "").strip()
Callsign(s) ==
    LET callsign == Strip(IF Idx(s, 1) = None THEN << >> ELSE Val(Idx(s, 1)))
    IN  IF callsign # << >> THEN callsign
        ELSE <<"(", "n", "o", " ", "c", "a", "l", "l", "s", "i", "g", "n", ")">>

\* heading = None if track is None else float(track) % 360
Heading(track) == IF track = None THEN None ELSE Some(Mod360(Val(track)))

\* the dictionary appended for row s; src is the position of s in states
\* (the identity of the dictionary's row, not a key of the dictionary)
Entry(s, src, a) ==
    LET lon     == Val(Idx(s, 5))
        lat     == Val(Idx(s, 6))
        bearing == bearing_deg(a.lat0, a.lon0, lat, lon)
    IN  [callsign         |-> Callsign(s),
         icao24           |-> Idx(s, 0),
         lat              |-> lat,
         lon              |-> lon,
         alt_m            |-> PyInt(Val(ResolveAlt(s))),
         dist_km          |-> haversine_km(a.lat0, a.lon0, lat, lon),
         bearing_deg      |-> bearing,
         bearing_card     |-> pretty_cardinal(bearing),
         heading_deg      |-> Heading(Idx(s, 10)),
         ground_speed_mps |-> Idx(s, 9),
         v_rate_mps       |-> Idx(s, 11),
         last_update      |-> Idx(s, 4),
         src              |-> src]

Skipped == [kind |-> "continue", out |-> << >>]

Raised(e) == [kind |-> e, out |-> << >>]

\* the body of the for loop on row s: "continue", "append" with the new
\* dictionary, or the exception that an index past the end of s raises
LoopBody(s, src, a) ==
    IF ~HasIdx(s, 1) \/ ~HasIdx(s, 5) \/ ~HasIdx(s, 6)
    THEN Raised("IndexError")
    ELSE IF Idx(s, 5) = None \/ Idx(s, 6) = None
    THEN Skipped
    ELSE IF ~HasIdx(s, 8)
    THEN Raised("IndexError")
    ELSE IF ResolveAlt(s) = None
    THEN Skipped
    ELSE IF TooFar(haversine_km(a.lat0, a.lon0, Val(Idx(s, 6)),
                                Val(Idx(s, 5))), a.radius_km)
    THEN Skipped
    ELSE IF GroundedOrLow(OnGround(s), Val(ResolveAlt(s)), a.min_alt_m)
    THEN Skipped
    ELSE IF ~HasIdx(s, 10) \/ ~HasIdx(s, 11)
    THEN Raised("IndexError")
    ELSE [kind |-> "append", out |-> <<Entry(s, src, a)>>]

(* ------------------------------------------------------------- the sort *)

\* a slip: an unstable sort, e put before the elements of equal key
RECURSIVE InsertBeforeEqual(_, _)
InsertBeforeEqual(sorted, e) ==
    IF sorted = << >> THEN <<e>>
    ELSE IF e.dist_km <= Head(sorted).dist_km THEN <<e>> \o sorted
    ELSE <<Head(sorted)>> \o InsertBeforeEqual(Tail(sorted), e)

\* e put behind every element of the sorted list whose key is not greater
RECURSIVE InsertByDist(_, _)
InsertByDist(sorted, e) ==
    IF sorted = << >> THEN <<e>>
    ELSE IF e.dist_km < Head(sorted).dist_km THEN <<e>> \o sorted
    ELSE <<Head(sorted)>> \o InsertByDist(Tail(sorted), e)

RECURSIVE SortFrom(_, _)
SortFrom(sorted, rest) ==
    IF rest = << >> THEN sorted
    ELSE SortFrom(InsertByDist(sorted, Head(rest)), Tail(rest))

\* a slip: the sort left out
SortLeftOut(list) == list

\* rows.sort(key=lambda r: r["dist_km"]): ascending, and stable
SortByDist(list) == SortFrom(<< >>, list)

(* ---------------------------------------------------- the state machine *)

Init ==
    /\ pc = "idle"
    /\ args = None
    /\ request = None
    /\ requests = 0
    /\ data = None
    /\ clock = 1700000123
    /\ t = None
    /\ states = None
    /\ i = 0
    /\ rows = << >>
    /\ result = None
    /\ err = "none"

\* list_nearby is called with arguments a: the bounding box, and the
\* parameters of the request
Call ==
    /\ pc = "idle"
    /\ \E a \in Calls :
          /\ args' = Some(a)
          /\ request' = Some([bbox     |-> bbox_from_center(a.lat0, a.lon0,
                                                            a.radius_km),
                              extended |-> 1,
                              timeout  |-> 10])
    /\ pc' = "fetch"
    /\ UNCHANGED <<requests, data, clock, t, states, i, rows, result, err>>

\* a slip: the failure is swallowed and the request issued again
FetchFailsAndRetries ==
    /\ pc = "fetch"
    /\ requests' = requests + 1
    /\ UNCHANGED <<pc, args, request, data, clock, t, states, i, rows,
                   result, err>>

\* requests.get or raise_for_status raises e, and list_nearby with it
FetchFails ==
    /\ pc = "fetch"
    /\ requests' = requests + 1
    /\ \E e \in TransportFailures : err' = e
    /\ pc' = "raised"
    /\ UNCHANGED <<args, request, data, clock, t, states, i, rows, result>>

\* the request succeeds with body d: t and states are read from it, and the
\* loop starts (a for loop over None raises TypeError)
FetchReturns ==
    /\ pc = "fetch"
    /\ requests' = requests + 1
    /\ \E d \in Responses :
          /\ data' = Some(d)
          /\ t' = DictGet(d, "time", Some(clock))
          /\ states' = OrEmpty(DictGet(d, "states", Some(<< >>)))
    /\ rows' = << >>
    /\ i' = 0
    /\ IF states' = None
       THEN pc' = "raised" /\ err' = "TypeError"
       ELSE pc' = "loop" /\ err' = err
    /\ UNCHANGED <<args, request, clock, result>>

\* one iteration of the for loop, on states[i]
LoopStep ==
    /\ pc = "loop"
    /\ i < Len(Val(states))
    /\ LET r == LoopBody(Idx(Val(states), i), i, Val(args))
       IN  /\ rows' = rows \o r.out
           /\ IF r.kind \in {"continue", "append"}
              THEN pc' = pc /\ err' = err /\ i' = i + 1
              ELSE pc' = "raised" /\ err' = r.kind /\ i' = i
    /\ UNCHANGED <<args, request, requests, data, clock, t, states, result>>

\* the loop is over: the sort, the slice and the return
Return ==
    /\ pc = "loop"
    /\ i >= Len(Val(states))
    /\ rows' = SortByDist(rows)
    /\ result' = Some(SliceTo(rows', Val(args).max_results))
    /\ pc' = "returned"
    /\ UNCHANGED <<args, request, requests, data, clock, t, states, i, err>>

Next ==
    \/ Call
    \/ FetchFails
    \/ FetchReturns
    \/ LoopStep
    \/ Return

Spec == Init /\ [][Next]_vars

(* ------------------------------------------- the vocabulary of the claims *)

\* s[k] as the interface reads a row: a field past the end is absent
Field(s, k) == IF k < Len(s) THEN s[k + 1] ELSE None

Returned == pc = "returned"

TheArgs == Val(args)

TheStates == Val(states)

TheResult == Val(result)

Indices(seq) == 0 .. Len(seq) - 1

HasCoords(s) == Field(s, 5) # None /\ Field(s, 6) # None

\* geometric altitude when present and not null, else barometric altitude
AltOf(s) == IF Field(s, 13) # None THEN Field(s, 13) ELSE Field(s, 7)

DistOf(s) ==
    haversine_km(TheArgs.lat0, TheArgs.lon0, Val(Field(s, 6)), Val(Field(s, 5)))

\* the row has coordinates and an altitude, is airborne, within the radius
\* and at or above the minimum altitude
Passes(s) ==
    /\ HasCoords(s)
    /\ AltOf(s) # None
    /\ Field(s, 8) # Some(TRUE)
    /\ DistOf(s) <= TheArgs.radius_km
    /\ Val(AltOf(s)) >= TheArgs.min_alt_m

InResult(k) == \E j \in 1 .. Len(TheResult) : TheResult[j].src = k

\* the response has no snapshot time: the key is missing, or null
NoTimestamp(d) == d.time = << >> \/ d.time = <<None>>

\* the response has no rows: the key is missing, null, or an empty list
NoStates(d) == d.states \in { << >>, <<None>>, <<Some(<< >>)>> }

(* ------------------------------------------------------------ the claims *)

\* C1 (as stated): every entry of the returned list has dist_km <= radius_km
\* and alt_m >= min_alt_m, and comes from a row whose on-ground flag is not
\* true.  alt_m is the entry's reported altitude, in whole metres.
C1_ResultsWithinLimits ==
    Returned =>
        \A j \in 1 .. Len(TheResult) :
            LET e == TheResult[j]
                s == Idx(TheStates, e.src)
            IN  /\ e.dist_km <= TheArgs.radius_km
                /\ e.alt_m * 10 >= TheArgs.min_alt_m
                /\ Field(s, 8) # Some(TRUE)

\* What holds of C1: the distance and on-ground parts, the altitude part for
\* the altitude the filter compared, and for the reported alt_m whenever
\* min_alt_m is a whole number of metres.
C1_HoldsForWholeMetres ==
    Returned =>
        \A j \in 1 .. Len(TheResult) :
            LET e == TheResult[j]
                s == Idx(TheStates, e.src)
            IN  /\ e.dist_km <= TheArgs.radius_km
                /\ Val(AltOf(s)) >= TheArgs.min_alt_m
                /\ TheArgs.min_alt_m % 10 = 0
                      => e.alt_m * 10 >= TheArgs.min_alt_m
                /\ Field(s, 8) # Some(TRUE)

\* C2: the returned list is ordered by non-decreasing dist_km, and entries
\* of equal dist_km are in the order of their rows in the states collection.
C2_SortedAndStable ==
    Returned =>
        \A j, k \in 1 .. Len(TheResult) :
            j < k =>
                /\ TheResult[j].dist_km <= TheResult[k].dist_km
                /\ TheResult[j].dist_km = TheResult[k].dist_km
                      => TheResult[j].src < TheResult[k].src

\* C2's case: two entries of the returned list are at the same distance
C2_Witness ==
    /\ Returned
    /\ \E j, k \in 1 .. Len(TheResult) :
          j < k /\ TheResult[j].dist_km = TheResult[k].dist_km

\* C3 (as stated): for every max_results, 0 and the negative ones included,
\* the returned list has at most max_results entries.
C3_AtMostMaxResults == Returned => Len(TheResult) <= TheArgs.max_results

\* C3 (amended): for max_results >= 0 the returned list has at most
\* max_results entries; for max_results < 0 it has the surviving entries but
\* the last -max_results of them (none when there are no more than that).
C3_AtMostMaxResultsNonNegative ==
    Returned =>
        /\ TheArgs.max_results >= 0 => Len(TheResult) <= TheArgs.max_results
        /\ TheArgs.max_results < 0 =>
              Len(TheResult) = IF Len(rows) + TheArgs.max_results > 0
                               THEN Len(rows) + TheArgs.max_results
                               ELSE 0

\* C3's case: more rows survive the filter than max_results >= 0 allows
C3_Witness ==
    /\ Returned
    /\ TheArgs.max_results >= 0
    /\ Len(rows) > TheArgs.max_results
    /\ Len(TheResult) = TheArgs.max_results

\* C4: a row with coordinates and an altitude that is airborne, at a distance
\* not greater than radius_km and at an altitude not less than min_alt_m is
\* not dropped by the filter, and is in the returned list when max_results
\* is at least the number of rows.
C4_KeptUnlessStrictlyOutside ==
    Returned =>
        \A k \in Indices(TheStates) :
            Passes(Idx(TheStates, k)) =>
                /\ \E j \in 1 .. Len(rows) : rows[j].src = k
                /\ TheArgs.max_results >= Len(TheStates) => InResult(k)

\* C4's case: a row at exactly radius_km and exactly min_alt_m is returned
C4_Witness ==
    /\ Returned
    /\ TheArgs.max_results >= Len(TheStates)
    /\ \E k \in Indices(TheStates) :
          /\ Passes(Idx(TheStates, k))
          /\ DistOf(Idx(TheStates, k)) = TheArgs.radius_km
          /\ Val(AltOf(Idx(TheStates, k))) = TheArgs.min_alt_m
          /\ InResult(k)

\* C5 (as stated): the altitude filtered on and reported is the geometric
\* altitude when that is present and not null (0 included), else the
\* barometric altitude; a row with neither produces no entry and no error.
C5_AltitudeResolution ==
    /\ \A j \in 1 .. Len(rows) :
          LET s == Idx(TheStates, rows[j].src)
          IN  /\ AltOf(s) # None
              /\ rows[j].alt_m = PyInt(Val(AltOf(s)))
              /\ Val(AltOf(s)) >= TheArgs.min_alt_m
    /\ pc = "raised" /\ err = "IndexError" => AltOf(Idx(TheStates, i)) # None

\* What holds of C5: every entry reports the truncated geometric altitude
\* when that is present and not null, else the barometric one; and a row of
\* nine fields or more with neither altitude raises nothing.
C5_HoldsForRowsOfNineFields ==
    /\ \A j \in 1 .. Len(rows) :
          LET s == Idx(TheStates, rows[j].src)
          IN  /\ AltOf(s) # None
              /\ rows[j].alt_m = PyInt(Val(AltOf(s)))
              /\ Val(AltOf(s)) >= TheArgs.min_alt_m
    /\ pc = "raised" /\ err = "IndexError" /\ Len(Idx(TheStates, i)) >= 9
          => AltOf(Idx(TheStates, i)) # None

\* C6 (as stated): no row makes list_nearby fail; the only failure that
\* leaves list_nearby is a transport failure of the fetch.
C6_OnlyTransportFailures == pc = "raised" => err \in TransportFailures

\* C7 (as stated): when the response carries no snapshot timestamp, the
\* first component returned is the wall-clock time, never None.
C7_TimestampFallback ==
    Returned /\ NoTimestamp(Val(data)) => t = Some(clock)

\* What holds of C7: when the time key is missing from the response, the
\* first component returned is the wall-clock time.
C7_HoldsForMissingKey ==
    Returned /\ Val(data).time = << >> => t = Some(clock)

\* C8: when the states collection of the response is missing, null or empty,
\* list_nearby raises nothing and returns an empty list.
C8_NoStatesNoError ==
    data # None /\ NoStates(Val(data)) =>
        /\ pc \in {"loop", "returned"}
        /\ err = "none"
        /\ states = Some(<< >>)
        /\ rows = << >>
        /\ pc = "loop" => ENABLED Return
        /\ Returned => result = Some(<< >>)

\* C8's case: the states key is null and the call has returned
C8_Witness ==
    /\ Returned
    /\ Val(data).states = <<None>>
    /\ result = Some(<< >>)

\* C9: a call issues exactly one request; when that request fails, the
\* failure is the outcome of the call: no second request, no result list.
C9_OneRequestNoRetry ==
    /\ requests = IF pc \in {"idle", "fetch"} THEN 0 ELSE 1
    /\ pc = "raised" /\ err \in TransportFailures =>
          /\ data = None
          /\ result = None
          /\ rows = << >>
          /\ ~ ENABLED Next

\* C9's case: the one request has timed out and the call has raised
C9_Witness == pc = "raised" /\ err = "Timeout" /\ requests = 1

\* C10: for max_results >= 0, when a row that passes every filter is not in
\* the returned list, the list has exactly max_results entries and none of
\* them is farther than that row; and no row is returned twice.
C10_TruncationKeepsNearest ==
    Returned /\ TheArgs.max_results >= 0 =>
        /\ \A k \in Indices(TheStates) :
              Passes(Idx(TheStates, k)) /\ ~ InResult(k) =>
                  /\ Len(TheResult) = TheArgs.max_results
                  /\ \A j \in 1 .. Len(TheResult) :
                        TheResult[j].dist_km <= DistOf(Idx(TheStates, k))
        /\ \A j, k \in 1 .. Len(TheResult) :
              j # k => TheResult[j].src # TheResult[k].src
        /\ \A j \in 1 .. Len(TheResult) :
              /\ TheResult[j].src \in Indices(TheStates)
              /\ TheResult[j].icao24 = Idx(TheStates, TheResult[j].src)[1]

\* C10's case: a passing row is left out in favour of a nearer one
C10_Witness ==
    /\ Returned
    /\ TheArgs.max_results >= 1
    /\ \E k \in Indices(TheStates) :
          /\ Passes(Idx(TheStates, k))
          /\ ~ InResult(k)
          /\ \E j \in 1 .. Len(TheResult) :
                TheResult[j].dist_km < DistOf(Idx(TheStates, k))

====
